---------------------------- MODULE Spec2Model ----------------------------
(***************************************************************************)
(* Accession resolution of SciCiteCheck: the six provider adapters         *)
(* (ArrayExpress, EMDB, ENCODE, GWAS, OSF, Zenodo) of src/repo_scripts.    *)
(*                                                                         *)
(* Text is modelled as a sequence of tokens.  A token is a character or a  *)
(* word ("Parent", "Directory", "/@@download/", a URL prefix); the string  *)
(* operations of the code (strip, startswith, endswith, "in", slicing,     *)
(* concatenation) are computed on these sequences.  The empty string is    *)
(* the empty sequence.                                                     *)
(***************************************************************************)
EXTENDS Integers, Sequences, FiniteSets, TLC

(***************************************************************************)
(* Bounds of the model.                                                    *)
(***************************************************************************)
MaxRows == 2
MaxFolders == 2
MaxEntries == 2
CACHE_SIZE == 2
RecursionLimit == 4
MaxNumber == 2000

(***************************************************************************)
(* Generic helpers on sequences.                                           *)
(***************************************************************************)
SeqsUpTo(S, n) ==
    UNION {[1..k -> S] : k \in 0..n}

Range(s) ==
    {s[i] : i \in DOMAIN s}

RECURSIVE Flatten(_)
Flatten(ss) ==
    IF ss = <<>> THEN <<>> ELSE Head(ss) \o Flatten(Tail(ss))

Min(a, b) ==
    IF a <= b THEN a ELSE b

(***************************************************************************)
(* String operations of Python, on token sequences.                        *)
(***************************************************************************)
Digits == {"0", "1", "2", "3", "4", "5", "6", "7", "8", "9"}

Letters == {"a", "b", "c", "d", "e", "K", "M", "Parent", "Directory"}

Blank == " "

RECURSIVE lstrip(_)
lstrip(t) ==
    IF t # <<>> /\ Head(t) = Blank THEN lstrip(Tail(t)) ELSE t

RECURSIVE rstrip(_)
rstrip(t) ==
    IF t # <<>> /\ t[Len(t)] = Blank THEN rstrip(SubSeq(t, 1, Len(t) - 1)) ELSE t

strip(t) ==
    rstrip(lstrip(t))

startswith(t, w) ==
    /\ Len(t) >= Len(w)
    /\ SubSeq(t, 1, Len(w)) = w

endswith(t, w) ==
    /\ Len(t) >= Len(w)
    /\ SubSeq(t, Len(t) - Len(w) + 1, Len(t)) = w

contains(t, w) ==
    \E i \in 1..(Len(t) + 1) :
        /\ i + Len(w) - 1 <= Len(t)
        /\ SubSeq(t, i, i + Len(w) - 1) = w

\* s[-n:]
LastN(t, n) ==
    IF Len(t) <= n THEN t ELSE SubSeq(t, Len(t) - n + 1, Len(t))

AllDigits(t) ==
    /\ t # <<>>
    /\ \A i \in DOMAIN t : t[i] \in Digits

ParentDirectory == <<"Parent", " ", "Directory">>

(***************************************************************************)
(* Python values that the code tells apart by type or truthiness.          *)
(***************************************************************************)
None == [t |-> "none"]

Str(v) == [t |-> "str", v |-> v]

List(v) == [t |-> "list", v |-> v]

Num(n) == [t |-> "num", v |-> n]

Bool(b) == [t |-> "bool", v |-> b]

\* A dict is the sequence of its <<key, value>> pairs in insertion order.
Dict(pairs) == [t |-> "dict", v |-> pairs]

\* What response.json() cannot decode.
Undecodable == [t |-> "undecodable"]

\* An exception leaving a function, in place of its return value.
Raise(exc) == [t |-> "raise", exc |-> exc]

\* bool(x)
Truthy(x) ==
    CASE x.t = "none" -> FALSE
      [] x.t = "num" -> x.v # 0
      [] x.t = "bool" -> x.v
      [] OTHER -> x.v # <<>>

\* key in d
HasKey(d, key) ==
    \E i \in DOMAIN d.v : d.v[i][1] = key

\* d.get(key, default)
GetOr(d, key, default) ==
    IF HasKey(d, key)
    THEN d.v[CHOOSE i \in DOMAIN d.v : d.v[i][1] = key][2]
    ELSE default

\* d.get(key)
Get(d, key) ==
    GetOr(d, key, None)

\* x == "literal"
EqStr(x, tokens) ==
    /\ x.t = "str"
    /\ x.v = tokens

(***************************************************************************)
(* utils.py                                                                *)
(***************************************************************************)
Units == <<"B", "K", "M", "G", "T">>

RECURSIVE Pow1024(_)
Pow1024(k) ==
    IF k = 0 THEN 1 ELSE 1024 * Pow1024(k - 1)

\* f"{x:.1f}" of x = n / d: the tenths of x, rounded to nearest, ties to even
\* (n / 1024^k is exact in binary floating point for the sizes modelled).
Tenths(n, d) ==
    LET q == (10 * n) \div d
        r == (10 * n) % d
    IN  IF 2 * r < d THEN q
        ELSE IF 2 * r > d THEN q + 1
        ELSE IF q % 2 = 0 THEN q ELSE q + 1

\* The text "<whole>.<tenth><unit>"
OneDecimal(tenths, unit) ==
    <<ToString(tenths \div 10), ".", ToString(tenths % 10), unit>>

RECURSIVE format_size_loop(_, _)
format_size_loop(n, k) ==
    IF k > Len(Units)
    THEN OneDecimal(Tenths(n, Pow1024(k - 1)), "P")
    ELSE IF n < Pow1024(k)
         THEN OneDecimal(Tenths(n, Pow1024(k - 1)), Units[k])
         ELSE format_size_loop(n, k + 1)

format_size(size_in_bytes) ==
    format_size_loop(size_in_bytes, 1)

\* Date strings the remote side serves, and their '%Y-%m-%d %H:%M' rendering.
IsoDates == {<<"2021-03-04T05:06:07Z">>}

\* date_str is any Python value: whatever fromisoformat cannot parse, and
\* whatever is no string at all, falls into the bare except.
format_date(date_str) ==
    IF date_str.t = "str" /\ date_str.v \in IsoDates
    THEN <<"2021-03-04 05:06">>
    ELSE <<"unknown">>

(***************************************************************************)
(* The state.  provider, acc and remote are the call's inputs: the adapter *)
(* called, the accession, and what the remote side serves.  The rest is    *)
(* the state of one process_accession call.                                *)
(***************************************************************************)
VARIABLES
    provider,    \* the adapter whose process_accession is called
    acc,         \* the accession string (a token sequence)
    remote,      \* the content the remote side serves for this accession
    pc,          \* position of the call
    access,      \* the local access_status / repo_access, None before it is set
    result,      \* what the call returned or raised
    net,         \* how many requests the call issued, and how many of them failed
    gwas,        \* GWAS: outcome of the study request, and the inputs and return
                 \* value of the latest top-level extract_all_files
    folder_ids,  \* OSF: ids of the top-level folders, in listing order
    files_info,  \* OSF: the list get_all_file_names accumulates
    queue,       \* OSF: submitted tasks no worker has taken yet
    running,     \* OSF: tasks a worker is executing
    futures,     \* OSF: per task, None or the outcome of process_folder
    merged,      \* OSF: number of task results the caller has consumed
    completed,   \* OSF: the tasks whose process_folder has ended, in the order
                 \* in which they ended, each with the outcome of its request
    fn,          \* cache: the fetch function that is called
    upstream,    \* cache: whether the remote side answers at present
    cache,       \* cache: the entries of the function's lru_cache, the least
                 \* recently used first
    inserted,    \* cache: the keys of the entries, in the order of insertion
    fetched,     \* cache: the keys fetched before whose entry was not evicted
    call,        \* cache: the latest call: key, value returned, requests issued
    frames,      \* walk: the frames of extract_all_files, the innermost last
    requested,   \* walk: the directories requested so far, in order
    outcome,     \* walk: what the outermost extract_all_files returned or raised
    lookup_url   \* lookup: the URL get_html_response built, None before

osfVars ==
    <<folder_ids, files_info, queue, running, futures, merged, completed>>

cacheVars ==
    <<fn, upstream, cache, inserted, fetched, call>>

walkVars ==
    <<frames, requested, outcome>>

callVars ==
    <<provider, acc, remote, pc, access, result, net, gwas>>

vars ==
    <<callVars, osfVars, cacheVars, walkVars, lookup_url>>

Pending == [kind |-> "pending"]

Returned(a, f) == [kind |-> "returned", access |-> a, files |-> f]

Raised(e) == [kind |-> "raised", exc |-> e]

Request(to, ok) == [to |-> to, ok |-> ok]

\* The request counters after the requests reqs.
Log(n, reqs) ==
    [issued |-> n.issued + Len(reqs),
     failed |-> n.failed + Cardinality({i \in DOMAIN reqs : ~reqs[i].ok})]

(***************************************************************************)
(* The access status strings of the adapters.                              *)
(***************************************************************************)
PUBLIC == <<"public">>
RESTRICTED == <<"restricted">>
WRONG_ACCESSION == <<"not accessible / wrong accession number">>
WRONG_REPOSITORY == <<"not accessible / wrong repository ID">>
NO_FILES == <<"no files in the given repo">>
NO_DATA == <<"no data deposited">>
NOT_RELEASED == <<"not yet released">>
WRONG_CODE == <<"Wrong accession code">>
NO_ACCESS_INFO == <<"No access information found">>
FAILED_TO_FETCH == <<"Failed to fetch data">>

(***************************************************************************)
(* FTP-style HTML tables (ArrayExpress, GWAS): the <tr> rows in document   *)
(* order; of a row, the number of <td> cells, whether the second cell has  *)
(* an anchor, the anchor's text and the text of the third and fourth cell. *)
(***************************************************************************)
HtmlRow(cols, anchor, text, size) ==
    [cols |-> cols, anchor |-> anchor, text |-> text,
     modified |-> <<" ", "2021-03-04 05:06", " ">>, size |-> size]

FileRowA == HtmlRow(4, TRUE, <<"a">>, <<"1", "K">>)
FileRowB == HtmlRow(5, TRUE, <<" ", "b", " ">>, <<" ", "5", "1", "2">>)
EmptyTextRow == HtmlRow(4, TRUE, <<>>, <<"7">>)
ParentRow == HtmlRow(4, TRUE, ParentDirectory, <<"-">>)
DirRowD == HtmlRow(4, TRUE, <<"d", "/">>, <<"-">>)
DirRowE == HtmlRow(4, TRUE, <<"e", "/", " ">>, <<" ", "-">>)
ShortRow == HtmlRow(3, TRUE, <<"c">>, <<>>)
NoAnchorRow == HtmlRow(4, FALSE, <<>>, <<"-">>)
HeaderRow == HtmlRow(0, FALSE, <<>>, <<>>)

(***************************************************************************)
(* array_express_api.py                                                    *)
(***************************************************************************)
AE_BASE_FTP_URL == "https://ftp.ebi.ac.uk/biostudies/fire/E-MTAB-"

AE_PREFIX == <<"E", "-", "M", "T", "A", "B", "-">>

\* re.match(r"^E-MTAB-(\d+)$", acc_no)
AE_ACCESSION_PATTERN(acc_no) ==
    /\ startswith(acc_no, AE_PREFIX)
    /\ AllDigits(SubSeq(acc_no, Len(AE_PREFIX) + 1, Len(acc_no)))

AE_generate_ftp_url(acc_no) ==
    IF ~AE_ACCESSION_PATTERN(acc_no)
    THEN None
    ELSE LET numeric_part == SubSeq(acc_no, Len(AE_PREFIX) + 1, Len(acc_no))
             last_three == LastN(numeric_part, 3)
         IN  Str(<<AE_BASE_FTP_URL, "/">> \o last_three \o <<"/">> \o acc_no
                 \o <<"/Files">>)

\* soup.find_all('tr')[3:-1]
AE_rows(trs) ==
    IF Len(trs) <= 4 THEN <<>> ELSE SubSeq(trs, 4, Len(trs) - 1)

RECURSIVE AE_scan_rows(_, _)
AE_scan_rows(url, rows) ==
    IF rows = <<>> THEN <<>>
    ELSE LET row == Head(rows)
             name == row.text
             rest == AE_scan_rows(url, Tail(rows))
         IN  IF row.cols >= 4 /\ row.anchor /\ ~startswith(name, <<"Parent">>)
             THEN <<[name |-> name,
                     size |-> strip(row.size),
                     last_modified |-> strip(row.modified),
                     download_url |-> url \o <<"/">> \o name]>> \o rest
             ELSE rest

\* ok: the request succeeded with a 2xx status; trs: the rows of the page served
AE_get_all_file_names_ftp(acc_no, ok, trs) ==
    LET url == AE_generate_ftp_url(acc_no)
    IN  IF ~Truthy(url) THEN <<>>
        ELSE IF ~ok THEN <<>>
        ELSE AE_scan_rows(url.v, AE_rows(trs))

\* check_access without its except clause: a failed request counts as served.
AE_check_access_ignoring_failure(acc_no, ok) ==
    IF ~Truthy(AE_generate_ftp_url(acc_no))
    THEN WRONG_ACCESSION
    ELSE PUBLIC

AE_check_access(acc_no, ok) ==
    IF ~Truthy(AE_generate_ftp_url(acc_no))
    THEN WRONG_ACCESSION
    ELSE IF ok THEN PUBLIC ELSE RESTRICTED

\* The requests a function issues: none when the accession does not match.
AE_requests(acc_no, ok) ==
    IF Truthy(AE_generate_ftp_url(acc_no)) THEN <<Request("ae_ftp", ok)>> ELSE <<>>

\* process_accession, lines 206-214: check_access and the non-public return
AE_process_check ==
    /\ provider = "ArrayExpress"
    /\ pc = "start"
    /\ \E ok \in BOOLEAN :
        LET access_status == AE_check_access(acc, ok)
        IN  /\ net' = Log(net, AE_requests(acc, ok))
            /\ access' = Str(access_status)
            /\ IF access_status # PUBLIC
               THEN /\ result' = Returned(access_status, List(<<>>))
                    /\ pc' = "done"
               ELSE /\ result' = result
                    /\ pc' = "ae_list"
    /\ UNCHANGED <<cacheVars, walkVars, lookup_url>>
    /\ UNCHANGED <<provider, acc, remote, gwas, osfVars>>

\* process_accession, lines 216-223: get_all_file_names_ftp and the return
AE_process_list ==
    /\ provider = "ArrayExpress"
    /\ pc = "ae_list"
    /\ \E ok \in BOOLEAN :
        /\ net' = Log(net, AE_requests(acc, ok))
        /\ result' = Returned(access.v,
                              List(AE_get_all_file_names_ftp(acc, ok, remote.trs)))
    /\ pc' = "done"
    /\ UNCHANGED <<cacheVars, walkVars, lookup_url>>
    /\ UNCHANGED <<provider, acc, remote, access, gwas, osfVars>>

\* The accessions and pages the ArrayExpress calls are checked on.
AE_Accessions ==
    {AE_PREFIX \o <<"1", "0", "7", "5", "9">>, AE_PREFIX \o <<"7">>,
     AE_PREFIX, AE_PREFIX \o <<"1", "a">>, <<"G", "C", "S", "T", "1">>}

HtmlRows ==
    {FileRowA, FileRowB, EmptyTextRow, ParentRow, DirRowD, DirRowE, ShortRow,
     NoAnchorRow}

HtmlBodies == SeqsUpTo(HtmlRows, MaxRows)

AE_Remotes ==
    {[trs |-> <<HeaderRow, HeaderRow, HeaderRow>> \o b \o <<HeaderRow>>] :
        b \in HtmlBodies}
    \cup {[trs |-> b] : b \in HtmlBodies}

(***************************************************************************)
(* encode_api.py                                                           *)
(*                                                                         *)
(* get_json_response is memoized (lru_cache): get_access and               *)
(* get_file_metadata of one process_accession call see the same data and   *)
(* one request is issued.                                                  *)
(***************************************************************************)
ENCODE_BASE_URL == "https://www.encodeproject.org"

DOWNLOAD == "/@@download/"

\* ok: the request succeeded with a 2xx status; body: the JSON served
Encode_get_json_response(ok, body) ==
    IF ~ok THEN None
    ELSE IF body = Undecodable THEN None
    ELSE body

\* re.search(r'.*/@@download/(.*)', href).group(1): the text after the last
\* "/@@download/" (the leading .* is greedy)
AfterLastDownload(href) ==
    LET last == CHOOSE i \in DOMAIN href :
                    /\ href[i] = DOWNLOAD
                    /\ \A j \in DOMAIN href : href[j] = DOWNLOAD => j <= i
    IN  SubSeq(href, last + 1, Len(href))

Encode_get_file_metadata(acc_no, data) ==
    IF data = None THEN List(<<>>)
    ELSE IF data.t # "dict" THEN Raise("AttributeError")
    ELSE LET file_size == Get(data, "file_size")
             date_created == Get(data, "date_created")
             href == GetOr(data, "href", Str(<<>>))
             file_format == GetOr(data, "file_format", Str(<<>>))
         IN  IF Truthy(file_size) /\ file_size.t # "num" THEN Raise("TypeError")
             ELSE IF href.t # "str" THEN Raise("TypeError")
             ELSE
             LET formatted_size == IF Truthy(file_size)
                                   THEN format_size(file_size.v)
                                   ELSE <<"unknown">>
                 formatted_date == IF Truthy(date_created)
                                   THEN format_date(date_created)
                                   ELSE <<"unknown">>
                 file_name == IF contains(href.v, <<DOWNLOAD>>)
                              THEN AfterLastDownload(href.v)
                              ELSE acc_no \o <<".">> \o file_format.v
             IN  List(<<[name |-> file_name,
                         size |-> formatted_size,
                         last_modified |-> formatted_date,
                         download_url |-> <<ENCODE_BASE_URL, "/files/">> \o acc_no
                                          \o <<DOWNLOAD>> \o file_name]>>)

Encode_get_access(data) ==
    IF data = None THEN Str(WRONG_CODE)
    ELSE IF data.t # "dict" THEN Raise("AttributeError")
    ELSE IF /\ EqStr(Get(data, "no_file_available"), <<"false">>)
            /\ ~EqStr(Get(data, "status"), <<"released">>)
         THEN Str(NO_DATA)
    ELSE IF EqStr(Get(data, "status"), <<"released">>)
         THEN Str(PUBLIC)
         ELSE Str(NOT_RELEASED)

Encode_process_accession(acc_no, ok, body) ==
    LET data == Encode_get_json_response(ok, body)
        a == Encode_get_access(data)
        m == Encode_get_file_metadata(acc_no, data)
    IN  IF a.t = "raise" THEN Raised(a.exc)
        ELSE IF m.t = "raise" THEN Raised(m.exc)
        ELSE Returned(a.v, m)

Encode_process ==
    /\ provider = "ENCODE"
    /\ pc = "start"
    /\ \E ok \in BOOLEAN :
        /\ net' = Log(net, <<Request("encode_json", ok)>>)
        /\ result' = Encode_process_accession(acc, ok, remote.body)
    /\ pc' = "done"
    /\ UNCHANGED <<cacheVars, walkVars, lookup_url>>
    /\ UNCHANGED <<provider, acc, remote, access, gwas, osfVars>>

\* The accessions and JSON bodies the ENCODE calls are checked on.
Encode_Accessions == {<<"ENCFF682WPF">>}

\* The dicts with, per key, either no entry or one of the values given.
RECURSIVE DictsOver(_)
DictsOver(choices) ==
    IF choices = <<>> THEN {<<>>}
    ELSE LET key == Head(choices)[1]
             values == Head(choices)[2]
             rest == DictsOver(Tail(choices))
         IN  rest \cup {<<<<key, v>>>> \o r : v \in values, r \in rest}

Encode_Objects ==
    {Dict(p) : p \in DictsOver(<<
        <<"status", {Str(<<"released">>), Str(<<"in progress">>)}>>,
        <<"no_file_available", {Bool(FALSE), Bool(TRUE), Str(<<"false">>)}>>,
        <<"file_size", {Num(0), Num(1280)}>>,
        <<"date_created", {Str(<<"2021-03-04T05:06:07Z">>)}>>,
        <<"href", {Str(<<"/files/", "ENCFF682WPF", DOWNLOAD, "ENCFF682WPF.bed">>),
                   Str(<<"/files/", "ENCFF682WPF", DOWNLOAD>>)}>>,
        <<"file_format", {Str(<<"bed">>)}>> >>)}

Encode_Remotes ==
    {[body |-> b] : b \in Encode_Objects \cup {Undecodable, None, List(<<>>)}}

(***************************************************************************)
(* zenodo_api.py                                                           *)
(***************************************************************************)
Zenodo_get_json_response(ok, body) ==
    IF ~ok THEN None
    ELSE IF body = Undecodable THEN None
    ELSE body

\* One entry of data["entries"]
Zenodo_file_record(file_info) ==
    [name |-> GetOr(file_info, "key", Str(<<"unknown">>)).v,
     size |-> format_size(GetOr(file_info, "size", Num(0)).v),
     last_modified |-> format_date(GetOr(file_info, "updated", Str(<<>>))),
     download_url |-> GetOr(GetOr(file_info, "links", Dict(<<>>)), "content",
                            Str(<<>>)).v]

Zenodo_format_file_info(data) ==
    IF Truthy(Get(data, "entries"))
    THEN LET entries == Get(data, "entries").v
         IN  [i \in DOMAIN entries |-> Zenodo_file_record(entries[i])]
    ELSE <<>>

Zenodo_process_accession(repo_id, ok, body) ==
    LET data == Zenodo_get_json_response(ok, body)
    IN  IF ~Truthy(data)
        THEN Returned(WRONG_REPOSITORY, List(<<>>))
        ELSE IF data.t # "dict" THEN Raised("AttributeError")
        ELSE LET access_status == IF Truthy(GetOr(data, "enabled", Bool(FALSE)))
                                  THEN PUBLIC
                                  ELSE RESTRICTED
                 files == Zenodo_format_file_info(data)
             IN  Returned(access_status, List(files))

Zenodo_process ==
    /\ provider = "Zenodo"
    /\ pc = "start"
    /\ \E ok \in BOOLEAN :
        /\ net' = Log(net, <<Request("zenodo_json", ok)>>)
        /\ result' = Zenodo_process_accession(acc, ok, remote.body)
    /\ pc' = "done"
    /\ UNCHANGED <<cacheVars, walkVars, lookup_url>>
    /\ UNCHANGED <<provider, acc, remote, access, gwas, osfVars>>

\* The record ids and JSON bodies the Zenodo calls are checked on.
Zenodo_Accessions == {<<"7059087">>}

Zenodo_Entries ==
    {Dict(<<<<"key", Str(<<"a.csv">>)>>, <<"size", Num(1280)>>,
            <<"updated", Str(<<"2021-03-04T05:06:07Z">>)>>,
            <<"links", Dict(<<<<"content", Str(<<"https://zenodo.org/api/a">>)>>>>)>>>>),
     Dict(<<<<"key", Str(<<>>)>>, <<"size", Num(0)>>>>),
     Dict(<<>>)}

Zenodo_Objects ==
    {Dict(p) : p \in DictsOver(<<
        <<"enabled", {Bool(TRUE), Bool(FALSE)}>>,
        <<"entries", {List(e) : e \in SeqsUpTo(Zenodo_Entries, MaxEntries)}>> >>)}

Zenodo_Remotes ==
    {[body |-> b] : b \in Zenodo_Objects \cup {Undecodable, None, List(<<Num(1)>>)}}

(***************************************************************************)
(* emdb_api.py                                                             *)
(*                                                                         *)
(* get_dataset_json_response is memoized (lru_cache): get_access and       *)
(* get_file_details of one process_accession call see the same data and    *)
(* one request is issued.                                                  *)
(***************************************************************************)
EMDB_FTP_BASE_URL == "https://ftp.ebi.ac.uk/pub/databases/emdb/structures"

\* The JSONDecodeError that response.json() raises on an undecodable body is a
\* requests.exceptions.RequestException (requests 2.27 and later), which the
\* except clause catches.
EMDB_get_dataset_json_response(ok, body) ==
    IF ~ok THEN None
    ELSE IF body = Undecodable THEN None
    ELSE body

\* The values search_files recurses into: dict values, list items.
Children(obj) ==
    CASE obj.t = "dict" -> [i \in DOMAIN obj.v |-> obj.v[i][2]]
      [] obj.t = "list" -> obj.v
      [] OTHER -> <<>>

IsFileNode(obj) ==
    /\ obj.t = "dict"
    /\ HasKey(obj, "file")
    /\ HasKey(obj, "size_kbytes")

\* Whether obj['size_kbytes'] * 1024, formatted, raises somewhere in the tree.
RECURSIVE EMDB_search_raises(_)
EMDB_search_raises(obj) ==
    \/ IsFileNode(obj) /\ Get(obj, "size_kbytes").t # "num"
    \/ \E i \in DOMAIN Children(obj) : EMDB_search_raises(Children(obj)[i])

RECURSIVE EMDB_search_files(_, _, _)
EMDB_search_files(acc_no, obj, modification_date) ==
    LET own ==
            IF IsFileNode(obj)
            THEN LET base_path == IF ~HasKey(obj, "additional_map_list")
                                  THEN "map"
                                  ELSE "other"
                 IN  <<[name |-> Get(obj, "file").v,
                        size |-> format_size(Get(obj, "size_kbytes").v * 1024),
                        last_modified |-> format_date(modification_date),
                        download_url |-> <<EMDB_FTP_BASE_URL, "/">> \o acc_no
                                         \o <<"/", base_path, "/">>
                                         \o Get(obj, "file").v]>>
            ELSE <<>>
        below == [i \in DOMAIN Children(obj) |->
                     EMDB_search_files(acc_no, Children(obj)[i], modification_date)]
    IN  own \o Flatten(below)

\* 'admin' in json_data and 'key_dates' in json_data['admin']
EMDB_has_key_dates(json_data) ==
    /\ json_data.t = "dict"
    /\ HasKey(json_data, "admin")
    /\ Get(json_data, "admin").t = "dict"
    /\ HasKey(Get(json_data, "admin"), "key_dates")

EMDB_get_file_details(acc_no, json_data) ==
    IF ~Truthy(json_data) THEN None
    \* 'admin' in json_data, 'key_dates' in json_data['admin']: "in" raises on
    \* None, a number and a boolean
    ELSE IF json_data.t \in {"num", "bool"} THEN Raise("TypeError")
    ELSE IF /\ json_data.t = "dict"
            /\ HasKey(json_data, "admin")
            /\ Get(json_data, "admin").t \in {"none", "num", "bool"}
         THEN Raise("TypeError")
    \* key_dates.get('update')
    ELSE IF /\ EMDB_has_key_dates(json_data)
            /\ Get(Get(json_data, "admin"), "key_dates").t # "dict"
         THEN Raise("AttributeError")
    ELSE IF EMDB_search_raises(json_data) THEN Raise("TypeError")
    ELSE LET modification_date ==
                 IF EMDB_has_key_dates(json_data)
                 THEN Get(Get(Get(json_data, "admin"), "key_dates"), "update")
                 ELSE Str(<<"unknown">>)
             files == EMDB_search_files(acc_no, json_data, modification_date)
         IN  IF files = <<>> THEN None ELSE List(files)

EMDB_get_access(data) ==
    IF data = None THEN WRONG_REPOSITORY ELSE PUBLIC

EMDB_process_accession(acc_no, ok, body) ==
    LET data == EMDB_get_dataset_json_response(ok, body)
        access_status == EMDB_get_access(data)
        files == EMDB_get_file_details(acc_no, data)
    IN  IF files.t = "raise" THEN Raised(files.exc)
        ELSE Returned(access_status, IF Truthy(files) THEN files ELSE List(<<>>))

EMDB_process ==
    /\ provider = "EMDB"
    /\ pc = "start"
    /\ \E ok \in BOOLEAN :
        /\ net' = Log(net, <<Request("emdb_json", ok)>>)
        /\ result' = EMDB_process_accession(acc, ok, remote.body)
    /\ pc' = "done"
    /\ UNCHANGED <<cacheVars, walkVars, lookup_url>>
    /\ UNCHANGED <<provider, acc, remote, access, gwas, osfVars>>

\* The accessions and JSON bodies the EMDB calls are checked on.
EMDB_Accessions == {<<"EMD-25583">>}

EMDB_FileNode(name, size_kbytes) ==
    Dict(<<<<"file", Str(name)>>, <<"size_kbytes", size_kbytes>>>>)

EMDB_Admin ==
    Dict(<<<<"key_dates", Dict(<<<<"update", Str(<<"2021-03-04T05:06:07Z">>)>>>>)>>>>)

EMDB_Bodies ==
    {Dict(<<<<"admin", EMDB_Admin>>,
            <<"map", EMDB_FileNode(<<"emd_25583.map.gz">>, Num(1024))>>,
            <<"interpretation", Dict(<<<<"additional_map_list",
                List(<<EMDB_FileNode(<<"emd_25583_additional_1.map.gz">>, Num(2))>>)>>>>)>>>>),
     Dict(<<<<"admin", Dict(<<<<"key_dates", Dict(<<>>)>>>>)>>,
            <<"map", Dict(<<<<"file", Str(<<"m.map.gz">>)>>, <<"size_kbytes", Num(1)>>,
                            <<"additional_map_list", List(<<>>)>>>>)>>>>),
     Dict(<<<<"admin", EMDB_Admin>>>>),
     Dict(<<<<"map", EMDB_FileNode(<<>>, Num(1))>>>>),
     Dict(<<<<"map", EMDB_FileNode(<<"m.map.gz">>, None)>>>>),
     Dict(<<<<"admin", None>>>>),
     Dict(<<<<"admin", Dict(<<<<"key_dates", List(<<>>)>>>>)>>>>),
     Dict(<<>>),
     List(<<EMDB_FileNode(<<"a.map.gz">>, Num(3)), EMDB_FileNode(<<"b.map.gz">>, Num(4))>>),
     Undecodable,
     None}

EMDB_Remotes ==
    {[body |-> b] : b \in EMDB_Bodies}

(***************************************************************************)
(* gwas_api.py                                                             *)
(***************************************************************************)
GWAS_FTP_BASE_URL == "https://ftp.ebi.ac.uk/pub/databases/gwas/summary_statistics"

DigitValue(c) ==
    CHOOSE n \in 0..9 : ToString(n) = c

\* int(text) of a text of digits
RECURSIVE ToInt(_)
ToInt(t) ==
    IF t = <<>> THEN 0 ELSE 10 * ToInt(SubSeq(t, 1, Len(t) - 1)) + DigitValue(t[Len(t)])

RECURSIVE DigitsOf(_)
DigitsOf(n) ==
    IF n < 10 THEN <<ToString(n)>> ELSE DigitsOf(n \div 10) \o <<ToString(n % 10)>>

\* f"{n:06d}"
ZeroPad6(n) ==
    [i \in 1..(6 - Min(6, Len(DigitsOf(n)))) |-> "0"] \o DigitsOf(n)

\* format_size of gwas_api.py, on the text of the size cell
gwas_format_size(size_str) ==
    IF strip(size_str) = <<"-">> \/ strip(size_str) = <<>> THEN <<"0", "B">>
    ELSE IF size_str[Len(size_str)] \in Letters THEN size_str
    ELSE LET cleaned == SelectSeq(size_str, LAMBDA c : c # ",")
         IN  IF AllDigits(cleaned)
             THEN DigitsOf(ToInt(cleaned)) \o <<".", "0", "B">>
             ELSE size_str

\* Whether int(input_str[4:]) returns (it raises ValueError otherwise).
GWAS_number_parses(input_str) ==
    AllDigits(SubSeq(input_str, 5, Len(input_str)))

GWAS_generate_range_string(input_str) ==
    LET prefix == SubSeq(input_str, 1, Min(4, Len(input_str)))
        number == ToInt(SubSeq(input_str, 5, Len(input_str)))
        range_start == (number \div 1000) * 1000 + 1
        range_end == (number \div 1000 + 1) * 1000
    IN  prefix \o ZeroPad6(range_start) \o <<"-">> \o prefix \o ZeroPad6(range_end)
        \o <<"/">>

\* The URL of a directory of the accession (lines 112 and 144).
GWAS_base_url(acc_no, directory) ==
    <<GWAS_FTP_BASE_URL, "/">> \o GWAS_generate_range_string(acc_no) \o acc_no
    \o <<"/">> \o directory

\* The remote side: tree.root is the page of the accession's directory,
\* tree.sub[name] the page of the subdirectory name, Deep the page of every
\* directory below a subdirectory; nothing is served further down.
DirNames == {<<"d", "/">>, <<"e", "/">>}

Deep == <<ParentRow, FileRowA>>

NotFound == [t |-> "notfound"]

GWAS_served(tree, directory) ==
    IF directory = <<>> THEN List(tree.root)
    ELSE IF directory \in DirNames THEN List(tree.sub[directory])
    ELSE IF \E a \in DirNames, b \in DirNames : directory = a \o b THEN List(Deep)
    ELSE NotFound

\* fails: the directories whose request fails (connection, timeout, error status)
GWAS_fetch_ok(tree, fails, directory) ==
    /\ directory \notin fails
    /\ GWAS_served(tree, directory) # NotFound

\* get_html_response, once the URL is built: None or the rows of the page
GWAS_get_html_response(tree, fails, directory) ==
    IF GWAS_fetch_ok(tree, fails, directory)
    THEN GWAS_served(tree, directory)
    ELSE None

\* Lines 146-160: the rows the loop does not skip
GWAS_row_counts(row) ==
    /\ row.cols >= 4
    /\ row.anchor
    /\ ~contains(strip(row.text), ParentDirectory)

\* The loop of lines 146-181 with file_path = file_name, the directory left out.
RECURSIVE GWAS_files_info_bare_names(_, _, _)
GWAS_files_info_bare_names(base_url, directory, rows) ==
    IF rows = <<>> THEN <<>>
    ELSE LET row == Head(rows)
             file_name == strip(row.text)
             rest == GWAS_files_info_bare_names(base_url, directory, Tail(rows))
         IN  IF GWAS_row_counts(row) /\ ~endswith(file_name, <<"/">>)
             THEN <<[name |-> file_name,
                     size |-> gwas_format_size(strip(row.size)),
                     last_modified |-> strip(row.modified),
                     download_url |-> base_url \o file_name]>> \o rest
             ELSE rest

\* Lines 146-181: files_info after the loop over the rows
RECURSIVE GWAS_files_info(_, _, _)
GWAS_files_info(base_url, directory, rows) ==
    IF rows = <<>> THEN <<>>
    ELSE LET row == Head(rows)
             file_name == strip(row.text)
             rest == GWAS_files_info(base_url, directory, Tail(rows))
         IN  IF GWAS_row_counts(row) /\ ~endswith(file_name, <<"/">>)
             THEN <<[name |-> directory \o file_name,
                     size |-> gwas_format_size(strip(row.size)),
                     last_modified |-> strip(row.modified),
                     download_url |-> base_url \o file_name]>> \o rest
             ELSE rest

\* Lines 146-170: directories after the loop over the rows
RECURSIVE GWAS_directories(_)
GWAS_directories(rows) ==
    IF rows = <<>> THEN <<>>
    ELSE LET row == Head(rows)
             file_name == strip(row.text)
             rest == GWAS_directories(Tail(rows))
         IN  IF GWAS_row_counts(row) /\ endswith(file_name, <<"/">>)
             THEN <<file_name>> \o rest
             ELSE rest

\* extract_all_files: ret is the value returned (or the exception raised),
\* fetched the directories requested, in order, each with its outcome.
RECURSIVE GWAS_extract_all_files(_, _, _, _)
RECURSIVE GWAS_extract_subdirs(_, _, _, _, _)
GWAS_extract_all_files(acc_no, directory, tree, fails) ==
    IF ~GWAS_number_parses(acc_no)
    THEN [ret |-> Raise("ValueError"), fetched |-> <<>>]
    ELSE LET html_doc == GWAS_get_html_response(tree, fails, directory)
             here == <<Request(directory, html_doc # None)>>
         IN  IF html_doc = None
             THEN [ret |-> Str(WRONG_ACCESSION), fetched |-> here]
             ELSE LET base_url == GWAS_base_url(acc_no, directory)
                      files_here == GWAS_files_info(base_url, directory, html_doc.v)
                      directories == GWAS_directories(html_doc.v)
                      below == GWAS_extract_subdirs(acc_no, directory, directories,
                                                    tree, fails)
                  IN  [ret |-> List(files_here \o below.files),
                       fetched |-> here \o below.fetched]

\* The loop of lines 184-187 leaving at the first subdirectory that returns the
\* error string: the subdirectories after it are not visited.
RECURSIVE GWAS_extract_subdirs_until_failure(_, _, _, _, _)
GWAS_extract_subdirs_until_failure(acc_no, directory, directories, tree, fails) ==
    IF directories = <<>> THEN [files |-> <<>>, fetched |-> <<>>]
    ELSE LET subdir == Head(directories)
             sub_files == GWAS_extract_all_files(acc_no, directory \o subdir, tree,
                                                 fails)
             rest == GWAS_extract_subdirs_until_failure(acc_no, directory,
                                                        Tail(directories), tree, fails)
         IN  IF sub_files.ret.t = "list"
             THEN [files |-> sub_files.ret.v \o rest.files,
                   fetched |-> sub_files.fetched \o rest.fetched]
             ELSE [files |-> <<>>, fetched |-> sub_files.fetched]

\* Lines 184-187: the loop over directories
GWAS_extract_subdirs(acc_no, directory, directories, tree, fails) ==
    IF directories = <<>> THEN [files |-> <<>>, fetched |-> <<>>]
    ELSE LET subdir == Head(directories)
             sub_files == GWAS_extract_all_files(acc_no, directory \o subdir, tree,
                                                 fails)
             rest == GWAS_extract_subdirs(acc_no, directory, Tail(directories), tree,
                                          fails)
         IN  [files |-> (IF sub_files.ret.t = "list" THEN sub_files.ret.v ELSE <<>>)
                        \o rest.files,
              fetched |-> sub_files.fetched \o rest.fetched]

\* get_access without the test of line 217: an empty listing counts as public.
GWAS_get_access_without_empty_test(meta_ok, walk) ==
    IF ~meta_ok THEN Str(WRONG_ACCESSION)
    ELSE LET files == walk.ret
         IN  IF files.t = "raise" THEN files
             ELSE IF files.t = "str" /\ files.v = WRONG_ACCESSION
                  THEN Str(WRONG_ACCESSION)
             ELSE Str(PUBLIC)

\* get_access: meta_ok is the outcome of the study request, walk the call of
\* extract_all_files (evaluated only when the study request succeeded)
GWAS_get_access(meta_ok, walk) ==
    IF ~meta_ok THEN Str(WRONG_ACCESSION)
    ELSE LET files == walk.ret
         IN  IF files.t = "raise" THEN files
             ELSE IF files.t = "str" /\ files.v = WRONG_ACCESSION
                  THEN Str(WRONG_ACCESSION)
             ELSE IF Len(files.v) = 0 THEN Str(NO_FILES)
             ELSE Str(PUBLIC)

\* The directories of the tree, when every request succeeds.
GWAS_all_dirs(tree) ==
    LET top == Range(GWAS_directories(tree.root))
    IN  {<<>>} \cup top
        \cup UNION {{a \o b : b \in Range(GWAS_directories(tree.sub[a]))} : a \in top}

NoWalk == [meta |-> "none", walked |-> FALSE]

\* What is kept of a call of extract_all_files: its caller, the directories
\* whose request failed, the value returned and the requests in order.
Walked(caller, walk) ==
    [meta |-> "ok", walked |-> TRUE, caller |-> caller,
     failed |-> {walk.fetched[i].to : i \in {j \in DOMAIN walk.fetched :
                                                ~walk.fetched[j].ok}},
     ret |-> walk.ret, fetched |-> walk.fetched]

\* process_accession, line 232: get_access
GWAS_process_access ==
    /\ provider = "GWAS"
    /\ pc = "start"
    /\ \E meta_ok \in BOOLEAN, fails \in SUBSET GWAS_all_dirs(remote) :
        LET walk == GWAS_extract_all_files(acc, <<>>, remote, fails)
            access_status == GWAS_get_access(meta_ok, walk)
        IN  /\ net' = Log(net, <<Request("gwas_study", meta_ok)>>
                               \o (IF meta_ok THEN walk.fetched ELSE <<>>))
            /\ gwas' = IF meta_ok
                       THEN Walked("get_access", walk)
                       ELSE [meta |-> "failed", walked |-> FALSE]
            /\ IF access_status.t = "raise"
               THEN /\ access' = access
                    /\ result' = Raised(access_status.exc)
                    /\ pc' = "done"
               ELSE /\ access' = access_status
                    /\ IF access_status.v = PUBLIC
                       THEN /\ result' = result
                            /\ pc' = "gwas_list"
                       ELSE /\ result' = Returned(access_status.v, List(<<>>))
                            /\ pc' = "done"
    /\ UNCHANGED <<cacheVars, walkVars, lookup_url>>
    /\ UNCHANGED <<provider, acc, remote, osfVars>>

\* process_accession, lines 234-239: the second extract_all_files and the return
GWAS_process_list ==
    /\ provider = "GWAS"
    /\ pc = "gwas_list"
    /\ \E fails \in SUBSET GWAS_all_dirs(remote) :
        LET walk == GWAS_extract_all_files(acc, <<>>, remote, fails)
        IN  /\ net' = Log(net, walk.fetched)
            /\ gwas' = Walked("process_accession", walk)
            /\ result' = IF walk.ret.t = "raise"
                         THEN Raised(walk.ret.exc)
                         ELSE Returned(access.v, walk.ret)
    /\ pc' = "done"
    /\ UNCHANGED <<cacheVars, walkVars, lookup_url>>
    /\ UNCHANGED <<provider, acc, remote, access, osfVars>>

\* The accessions and directory trees the GWAS calls are checked on.
GWAS_Accessions ==
    {<<"G", "C", "S", "T", "9", "0", "0", "2", "7", "1", "5", "8">>,
     <<"G", "C", "S", "T", "a", "b">>,
     <<"G", "C", "S", "T">>}

SubListings == {<<>>, <<FileRowB>>, <<DirRowD, FileRowA>>}

\* A subdirectory the root page does not link to serves the empty page.
GWAS_Remotes ==
    {tree \in [root : HtmlBodies, sub : [DirNames -> SubListings]] :
        \A n \in DirNames :
            n \notin {strip(tree.root[i].text) : i \in DOMAIN tree.root}
                => tree.sub[n] = <<>>}

(***************************************************************************)
(* osf_api.py                                                              *)
(*                                                                         *)
(* An entry of a listing is kept as the row pd.json_normalize makes of it: *)
(* id, attributes.kind, attributes.materialized_path, attributes.size and  *)
(* attributes.date_modified.                                               *)
(***************************************************************************)
OSF_DOWNLOAD_URL == "https://osf.io/download"

MAX_WORKERS == 10

LowerToken(c) ==
    CASE c = "Public" -> "public"
      [] c = "Private" -> "private"
      [] OTHER -> c

\* str.lower()
lower(t) ==
    [i \in DOMAIN t |-> LowerToken(t[i])]

\* ok: the request succeeded with a 2xx status; marker: the text of the
\* disabled button of the page, None when the page has no such button
OSF_check_access(ok, marker) ==
    IF ~ok THEN WRONG_REPOSITORY
    ELSE IF marker # None /\ strip(marker.v) # <<>> THEN strip(marker.v)
    ELSE NO_ACCESS_INFO

\* get_json_response: response.json()['data'].  An undecodable body raises a
\* RequestException, caught as for EMDB; a missing 'data' raises KeyError.
OSF_get_json_response(ok, body) ==
    IF ~ok THEN None
    ELSE IF body = Undecodable THEN None
    ELSE IF body.t # "dict" THEN Raise("TypeError")
    ELSE IF ~HasKey(body, "data") THEN Raise("KeyError")
    ELSE Get(body, "data")

\* format_size(row.get('attributes.size', 0)): the size of a folder is null,
\* NaN in the data frame, which no unit of the loop fits
OSF_format_size(size) ==
    IF size.t = "num" THEN format_size(size.v) ELSE <<"nan", "P">>

\* Lines 149-154: the record of a top-level file
OSF_root_record(row) ==
    [name |-> row.materialized_path,
     size |-> OSF_format_size(row.size),
     last_modified |-> format_date(row.date_modified),
     download_url |-> <<OSF_DOWNLOAD_URL, "/">> \o row.id]

\* Lines 119-124: the record of an entry of a folder
OSF_folder_record(row) ==
    [name |-> row.materialized_path,
     size |-> OSF_format_size(row.size),
     modified |-> format_date(row.date_modified),
     download_url |-> IF row.kind = "file"
                      THEN <<OSF_DOWNLOAD_URL, "/">> \o row.id
                      ELSE <<>>]

\* process_folder letting a failed fetch abort the call
OSF_process_folder_aborting(folder_data) ==
    IF folder_data.t = "raise" THEN folder_data
    ELSE IF Truthy(folder_data)
         THEN List([i \in DOMAIN folder_data.v |-> OSF_folder_record(folder_data.v[i])])
         ELSE Raise("TypeError")

\* process_folder, given what get_json_response returned
OSF_process_folder(folder_data) ==
    IF folder_data.t = "raise" THEN folder_data
    ELSE IF Truthy(folder_data)
         THEN List([i \in DOMAIN folder_data.v |-> OSF_folder_record(folder_data.v[i])])
         ELSE List(<<>>)

\* Lines 145-154: files_info after the loop over the top-level files
OSF_root_files(main_data) ==
    LET file_rows == SelectSeq(main_data.v, LAMBDA row : row.kind = "file")
    IN  [i \in DOMAIN file_rows |-> OSF_root_record(file_rows[i])]

\* Line 156
OSF_folder_ids(main_data) ==
    LET folder_rows == SelectSeq(main_data.v, LAMBDA row : row.kind = "folder")
    IN  [i \in DOMAIN folder_rows |-> folder_rows[i].id]

\* The pool sized by the number of folders alone
OSF_max_workers_uncapped(ids) ==
    Len(ids)

\* Line 159: ThreadPoolExecutor(max_workers=...)
OSF_max_workers(ids) ==
    Min(Len(ids), MAX_WORKERS)

\* process_accession, lines 176-184: check_access and the early return
OSF_process_check ==
    /\ provider = "OSF"
    /\ pc = "start"
    /\ \E ok \in BOOLEAN :
        LET repo_access == OSF_check_access(ok, remote.marker)
        IN  /\ net' = Log(net, <<Request("osf_page", ok)>>)
            /\ access' = Str(repo_access)
            /\ IF repo_access \in {WRONG_REPOSITORY, FAILED_TO_FETCH, NO_ACCESS_INFO}
               THEN /\ result' = Returned(repo_access, List(<<>>))
                    /\ pc' = "done"
               ELSE /\ result' = result
                    /\ pc' = "osf_root"
    /\ UNCHANGED <<cacheVars, walkVars, lookup_url>>
    /\ UNCHANGED <<provider, acc, remote, gwas, osfVars>>

\* get_all_file_names, lines 138-160: the root listing, the top-level files
\* and the submission of one task per folder
OSF_root_listing ==
    /\ provider = "OSF"
    /\ pc = "osf_root"
    /\ \E ok \in BOOLEAN :
        LET main_data == OSF_get_json_response(ok, remote.root)
        IN  /\ net' = Log(net, <<Request("osf_root", ok)>>)
            /\ IF main_data.t = "raise"
               THEN /\ result' = Raised(main_data.exc)
                    /\ pc' = "done"
                    /\ UNCHANGED osfVars
               ELSE IF ~Truthy(main_data)
               THEN /\ result' = Returned(lower(access.v), List(<<>>))
                    /\ pc' = "done"
                    /\ UNCHANGED osfVars
               ELSE IF OSF_max_workers(OSF_folder_ids(main_data)) <= 0
               THEN \* ThreadPoolExecutor: "max_workers must be greater than 0"
                    /\ result' = Raised("ValueError")
                    /\ pc' = "done"
                    /\ files_info' = OSF_root_files(main_data)
                    /\ folder_ids' = OSF_folder_ids(main_data)
                    /\ UNCHANGED <<queue, running, futures, merged>>
               ELSE /\ result' = result
                    /\ pc' = "osf_pool"
                    /\ files_info' = OSF_root_files(main_data)
                    /\ folder_ids' = OSF_folder_ids(main_data)
                    /\ queue' = [i \in DOMAIN OSF_folder_ids(main_data) |-> i]
                    /\ futures' = [i \in DOMAIN OSF_folder_ids(main_data) |-> None]
                    /\ UNCHANGED <<running, merged>>
    /\ UNCHANGED <<completed, cacheVars, walkVars, lookup_url>>
    /\ UNCHANGED <<provider, acc, remote, access, gwas>>

\* A worker thread takes the oldest task of the executor's queue.
OSF_worker_start ==
    /\ provider = "OSF"
    /\ pc = "osf_pool"
    /\ queue # <<>>
    /\ Cardinality(running) < OSF_max_workers(folder_ids)
    /\ running' = running \cup {Head(queue)}
    /\ queue' = Tail(queue)
    /\ UNCHANGED <<cacheVars, walkVars, lookup_url>>
    /\ UNCHANGED <<provider, acc, remote, pc, access, result, net, gwas,
                   folder_ids, files_info, futures, merged, completed>>

\* A worker's process_folder returns (or raises): the future is set.
OSF_worker_finish ==
    /\ provider = "OSF"
    /\ pc = "osf_pool"
    /\ \E i \in running, ok \in BOOLEAN :
        LET folder_data == OSF_get_json_response(ok, remote.folder[folder_ids[i]])
        IN  /\ futures' = [futures EXCEPT ![i] = OSF_process_folder(folder_data)]
            /\ running' = running \ {i}
            /\ completed' = Append(completed, [task |-> i, ok |-> ok])
            /\ net' = Log(net, <<Request("osf_folder", ok)>>)
    /\ UNCHANGED <<cacheVars, walkVars, lookup_url>>
    /\ UNCHANGED <<provider, acc, remote, pc, access, result, gwas,
                   folder_ids, files_info, queue, merged>>

\* Lines 161-162 with files_info = result in place of files_info.extend(result).
OSF_merge_overwriting ==
    /\ provider = "OSF"
    /\ pc = "osf_pool"
    /\ merged < Len(folder_ids)
    /\ futures[merged + 1] # None
    /\ IF futures[merged + 1].t = "raise"
       THEN /\ result' = Raised(futures[merged + 1].exc)
            /\ pc' = "done"
            /\ UNCHANGED <<files_info, merged>>
       ELSE /\ files_info' = futures[merged + 1].v
            /\ merged' = merged + 1
            /\ UNCHANGED <<result, pc>>
    /\ UNCHANGED <<cacheVars, walkVars, lookup_url>>
    /\ UNCHANGED <<provider, acc, remote, access, net, gwas, folder_ids,
                   queue, running, futures, completed>>

\* The merge loop taking the results as the workers deliver them
OSF_merge_as_completed ==
    /\ provider = "OSF"
    /\ pc = "osf_pool"
    /\ merged < Len(folder_ids)
    /\ merged < Len(completed)
    /\ LET done == futures[completed[merged + 1].task]
       IN  IF done.t = "raise"
           THEN /\ result' = Raised(done.exc)
                /\ pc' = "done"
                /\ UNCHANGED <<files_info, merged>>
           ELSE /\ files_info' = files_info \o done.v
                /\ merged' = merged + 1
                /\ UNCHANGED <<result, pc>>
    /\ UNCHANGED <<cacheVars, walkVars, lookup_url>>
    /\ UNCHANGED <<provider, acc, remote, access, net, gwas, folder_ids,
                   queue, running, futures, completed>>

\* Lines 161-162: the caller takes the next result of executor.map, in the
\* order of submission; a worker's exception is raised again here.
OSF_merge ==
    /\ provider = "OSF"
    /\ pc = "osf_pool"
    /\ merged < Len(folder_ids)
    /\ futures[merged + 1] # None
    /\ IF futures[merged + 1].t = "raise"
       THEN /\ result' = Raised(futures[merged + 1].exc)
            /\ pc' = "done"
            /\ UNCHANGED <<files_info, merged>>
       ELSE /\ files_info' = files_info \o futures[merged + 1].v
            /\ merged' = merged + 1
            /\ UNCHANGED <<result, pc>>
    /\ UNCHANGED <<cacheVars, walkVars, lookup_url>>
    /\ UNCHANGED <<provider, acc, remote, access, net, gwas, folder_ids,
                   queue, running, futures, completed>>

\* Lines 164 and 188-193: every result is merged, process_accession returns
OSF_return ==
    /\ provider = "OSF"
    /\ pc = "osf_pool"
    /\ merged = Len(folder_ids)
    /\ result' = Returned(lower(access.v), List(files_info))
    /\ pc' = "done"
    /\ UNCHANGED <<cacheVars, walkVars, lookup_url>>
    /\ UNCHANGED <<provider, acc, remote, access, net, gwas, osfVars>>

\* The repositories the OSF calls are checked on: RootFiles top-level files
\* followed by up to MaxFolders folders of up to MaxEntries entries each, of
\* which the second is a sub-folder.
OSF_Accessions == {<<"bgw73">>}

OSF_entry(id, kind) ==
    [id |-> id, kind |-> kind, materialized_path |-> <<"/">> \o id,
     size |-> IF kind = "file" THEN Num(1280) ELSE None,
     date_modified |-> Str(<<"2021-03-04T05:06:07Z">>)]

OSF_root_file(i) == OSF_entry(<<"r", ToString(i)>>, "file")

OSF_folder_id(i) == <<"g", ToString(i)>>

OSF_folder_entry(i, j) ==
    OSF_entry(OSF_folder_id(i) \o <<"/", "x", ToString(j)>>,
              IF j = 2 THEN "folder" ELSE "file")

OSF_listing(rows) == Dict(<<<<"data", List(rows)>>>>)

OSF_NoData == Dict(<<<<"errors", List(<<>>)>>>>)

RootFileCounts == {0, 3}

OSF_Roots ==
    {OSF_listing([i \in 1..f |-> OSF_root_file(i)]
                 \o [i \in 1..n |-> OSF_entry(OSF_folder_id(i), "folder")]) :
        f \in RootFileCounts, n \in 0..MaxFolders}
    \cup {OSF_NoData, Undecodable}

OSF_FolderBodies(i) ==
    {OSF_listing([j \in 1..k |-> OSF_folder_entry(i, j)]) : k \in 0..MaxEntries}
    \cup {OSF_NoData}

OSF_Markers ==
    {Str(<<" ", "Public", " ">>), Str(<<"Private">>), Str(<<" ">>), None}

\* A folder the root listing does not hold serves the empty listing.
OSF_Remotes ==
    {r \in [marker : OSF_Markers, root : OSF_Roots,
            folder : [{OSF_folder_id(i) : i \in 1..MaxFolders} ->
                         UNION {OSF_FolderBodies(i) : i \in 1..MaxFolders}]] :
        \A i \in 1..MaxFolders :
            /\ r.folder[OSF_folder_id(i)] \in OSF_FolderBodies(i)
            /\ (\/ r.root.t # "dict"
                \/ ~HasKey(r.root, "data")
                \/ \A k \in DOMAIN Get(r.root, "data").v :
                       Get(r.root, "data").v[k].id # OSF_folder_id(i))
                   => r.folder[OSF_folder_id(i)] = OSF_listing(<<>>)}

(***************************************************************************)
(* functools.lru_cache in front of the fetch functions.                    *)
(*                                                                         *)
(* CACHE_SIZE is 128 in every adapter; the cache is modelled with the      *)
(* capacity CACHE_SIZE of this module and CACHE_SIZE + 1 keys, enough for  *)
(* an insertion into a full cache.  A fetch function sends one request and *)
(* returns the decoded body, or None when the request fails.               *)
(***************************************************************************)
\* The functions of the adapters that send a request
FetchFunctions ==
    {"ArrayExpress.check_access", "ArrayExpress.get_all_file_names_ftp",
     "EMDB.get_dataset_json_response", "ENCODE.get_json_response",
     "GWAS.get_access", "GWAS.get_html_response",
     "OSF.check_access", "OSF.get_json_response", "Zenodo.get_json_response"}

\* Those decorated with @lru_cache(maxsize=CACHE_SIZE)
Memoized(f) ==
    f \in {"EMDB.get_dataset_json_response", "ENCODE.get_json_response",
           "OSF.check_access", "OSF.get_json_response", "Zenodo.get_json_response"}

\* The arguments the function is called with (accessions, repository ids)
Keys == 1..(CACHE_SIZE + 1)

CacheKeys(c) ==
    {c[i].key : i \in DOMAIN c}

CachedValue(c, k) ==
    c[CHOOSE i \in DOMAIN c : c[i].key = k].value

\* What the function body returns: the body served, None on a failed request
FetchedValue(up, k) ==
    IF up THEN Str(<<"body", ToString(k)>>) ELSE None

\* lru_cache that does not keep a None result: a key whose fetch failed is
\* fetched again.
lru_cache_call_retrying_absent(f, c, up, k) ==
    IF Memoized(f) /\ k \in CacheKeys(c) /\ CachedValue(c, k) # None
    THEN [value |-> CachedValue(c, k), requests |-> 0,
          cache |-> SelectSeq(c, LAMBDA e : e.key # k)
                    \o <<[key |-> k, value |-> CachedValue(c, k)]>>]
    ELSE LET v == FetchedValue(up, k)
             others == SelectSeq(c, LAMBDA e : e.key # k)
         IN  [value |-> v, requests |-> 1,
              cache |-> IF ~Memoized(f) THEN c
                        ELSE (IF Len(others) >= CACHE_SIZE THEN Tail(others) ELSE others)
                             \o <<[key |-> k, value |-> v]>>]

\* A call f(k) through the wrapper lru_cache makes: a hit returns the entry's
\* value and makes the entry the most recently used; a miss runs the function,
\* stores what it returns and, the cache being full, drops the least recently
\* used entry.  A function without the decorator runs at every call.
lru_cache_call(f, c, up, k) ==
    IF Memoized(f) /\ k \in CacheKeys(c)
    THEN [value |-> CachedValue(c, k), requests |-> 0,
          cache |-> SelectSeq(c, LAMBDA e : e.key # k)
                    \o <<[key |-> k, value |-> CachedValue(c, k)]>>]
    ELSE LET v == FetchedValue(up, k)
         IN  [value |-> v, requests |-> 1,
              cache |-> IF ~Memoized(f) THEN c
                        ELSE (IF Len(c) >= CACHE_SIZE THEN Tail(c) ELSE c)
                             \o <<[key |-> k, value |-> v]>>]

NoCall == [key |-> 0, value |-> None, requests |-> 0, repeated |-> FALSE]

\* The adapter calls fn(k), as process_accession(k) does.
Fetch ==
    /\ \E k \in Keys :
        LET r == lru_cache_call(fn, cache, upstream, k)
        IN  /\ cache' = r.cache
            /\ call' = [key |-> k, value |-> r.value, requests |-> r.requests,
                        repeated |-> k \in fetched]
            /\ inserted' = IF k \in CacheKeys(r.cache) /\ k \notin CacheKeys(cache)
                           THEN SelectSeq(inserted,
                                          LAMBDA x : x \in CacheKeys(r.cache)) \o <<k>>
                           ELSE inserted
            /\ fetched' = IF Memoized(fn) THEN CacheKeys(r.cache)
                          ELSE fetched \cup {k}
    /\ UNCHANGED <<fn, upstream, callVars, osfVars, walkVars, lookup_url>>

\* Between two calls the remote side becomes reachable or unreachable.
Remote_changes ==
    /\ upstream' = ~upstream
    /\ UNCHANGED <<fn, cache, inserted, fetched, call, callVars, osfVars, walkVars, lookup_url>>

(***************************************************************************)
(* The calls checked: one process_accession call of one adapter.           *)
(***************************************************************************)
Scenarios ==
    ({"ArrayExpress"} \X AE_Accessions \X AE_Remotes)
    \cup ({"EMDB"} \X EMDB_Accessions \X EMDB_Remotes)
    \cup ({"ENCODE"} \X Encode_Accessions \X Encode_Remotes)
    \cup ({"GWAS"} \X GWAS_Accessions \X GWAS_Remotes)
    \cup ({"OSF"} \X OSF_Accessions \X OSF_Remotes)
    \cup ({"Zenodo"} \X Zenodo_Accessions \X Zenodo_Remotes)

\* No process_accession call is under way.
NoProcess ==
    /\ provider = "none"
    /\ acc = <<>>
    /\ remote = None
    /\ pc = "idle"
    /\ access = None
    /\ result = Pending
    /\ net = [issued |-> 0, failed |-> 0]
    /\ gwas = NoWalk
    /\ folder_ids = <<>>
    /\ files_info = <<>>
    /\ queue = <<>>
    /\ running = {}
    /\ futures = <<>>
    /\ merged = 0
    /\ completed = <<>>

\* No fetch function is called.
NoCache ==
    /\ fn = "none"
    /\ upstream = TRUE
    /\ cache = <<>>
    /\ inserted = <<>>
    /\ fetched = {}
    /\ call = NoCall

\* No extract_all_files is stepped through.
NoFrames ==
    /\ frames = <<>>
    /\ requested = <<>>
    /\ outcome = Pending

Init ==
    /\ \E s \in Scenarios :
        /\ provider = s[1]
        /\ acc = s[2]
        /\ remote = s[3]
    /\ pc = "start"
    /\ access = None
    /\ result = Pending
    /\ net = [issued |-> 0, failed |-> 0]
    /\ gwas = NoWalk
    /\ folder_ids = <<>>
    /\ files_info = <<>>
    /\ queue = <<>>
    /\ running = {}
    /\ futures = <<>>
    /\ merged = 0
    /\ completed = <<>>
    /\ NoCache
    /\ lookup_url = None
    /\ NoFrames

Next ==
    \/ AE_process_check
    \/ AE_process_list
    \/ EMDB_process
    \/ Encode_process
    \/ GWAS_process_access
    \/ GWAS_process_list
    \/ OSF_process_check
    \/ OSF_root_listing
    \/ OSF_worker_start
    \/ OSF_worker_finish
    \/ OSF_merge
    \/ OSF_return
    \/ Zenodo_process

Spec == Init /\ [][Next]_vars

\* Calls of one fetch function, the remote side changing in between.
CacheInit ==
    /\ fn \in FetchFunctions
    /\ upstream \in BOOLEAN
    /\ cache = <<>>
    /\ inserted = <<>>
    /\ fetched = {}
    /\ call = NoCall
    /\ NoProcess
    /\ NoFrames
    /\ lookup_url = None

CacheNext ==
    \/ Fetch
    \/ Remote_changes

CacheSpec == CacheInit /\ [][CacheNext]_vars

(***************************************************************************)
(* One OSF call on a repository with more top-level folders than the pool  *)
(* has workers.  Every folder lists one file and every request is served;   *)
(* a free worker takes the next folder before another request is answered,  *)
(* and of the running requests the one submitted first or the one submitted *)
(* last is answered next.                                                   *)
(***************************************************************************)
WideFolderCounts == {2, MAX_WORKERS + 1}

OSF_WideRemote(n) ==
    [marker |-> Str(<<"Public">>),
     root |-> OSF_listing([i \in 1..n |-> OSF_entry(OSF_folder_id(i), "folder")]),
     folder |-> [id \in {OSF_folder_id(i) : i \in 1..n} |->
                    OSF_listing(<<OSF_entry(id \o <<"/", "x", "1">>, "file")>>)]]

PoolInit ==
    /\ provider = "OSF"
    /\ acc \in OSF_Accessions
    /\ \E n \in WideFolderCounts : remote = OSF_WideRemote(n)
    /\ pc = "start"
    /\ access = None
    /\ result = Pending
    /\ net = [issued |-> 0, failed |-> 0]
    /\ gwas = NoWalk
    /\ folder_ids = <<>>
    /\ files_info = <<>>
    /\ queue = <<>>
    /\ running = {}
    /\ futures = <<>>
    /\ merged = 0
    /\ completed = <<>>
    /\ NoCache
    /\ lookup_url = None
    /\ NoFrames

Pool_worker_finish ==
    /\ OSF_worker_finish
    /\ queue = <<>> \/ Cardinality(running) = OSF_max_workers(folder_ids)
    /\ completed'[Len(completed')].ok
    /\ \/ \A i \in running : completed'[Len(completed')].task <= i
       \/ \A i \in running : completed'[Len(completed')].task >= i

PoolNext ==
    \/ OSF_process_check
    \/ OSF_root_listing
    \/ OSF_worker_start
    \/ Pool_worker_finish
    \/ OSF_merge
    \/ OSF_return

PoolSpec == PoolInit /\ [][PoolNext]_vars

(***************************************************************************)
(* gwas_api.py: one call of extract_all_files stepped through, an element   *)
(* of frames for each call under way.  The page of a directory below the    *)
(* root is the page of its last name, so that a directory whose page names  *)
(* it again (a link to itself or to a directory above it) is listed at      *)
(* every depth.                                                             *)
(***************************************************************************)
WalkAccession == <<"G", "C", "S", "T", "9", "0", "0", "2", "7", "1", "5", "8">>

WalkRoots ==
    {<<ParentRow, FileRowA>>, <<DirRowD, FileRowA>>, <<FileRowB, DirRowE>>,
     <<DirRowE, FileRowA, DirRowD>>}

WalkListings == SubListings \cup {<<FileRowB, DirRowE>>}

WalkRemotes == [root : WalkRoots, sub : [DirNames -> WalkListings]]

Walk_served(tree, directory) ==
    IF directory = <<>> THEN tree.root ELSE tree.sub[LastN(directory, 2)]

\* Lines 140-141 of a call on directory, before its request
Walk_frame(directory) ==
    [directory |-> directory, phase |-> "fetch", files_info |-> <<>>,
     directories |-> <<>>]

\* Lines 144-181: the call after the loop over the rows of its page
Walk_scanned(frame, rows) ==
    [frame EXCEPT
        !.phase = "loop",
        !.files_info = GWAS_files_info(GWAS_base_url(WalkAccession, frame.directory),
                                       frame.directory, rows),
        !.directories = GWAS_directories(rows)]

\* Line 187 putting the files of the subdirectory first
Walk_extend_in_front(files, sub_files) ==
    IF sub_files.t = "list" THEN sub_files.v \o files ELSE files

\* Lines 186-187
Walk_extend(files, sub_files) ==
    IF sub_files.t = "list" THEN files \o sub_files.v ELSE files

\* Lines 134-137: the request of the innermost call.  A call at the depth
\* the interpreter allows cannot run the calls the request takes: the
\* RecursionError is raised inside the try block of get_html_response and
\* caught there, or outside it and leaves every call under way.
Walk_fetch ==
    /\ outcome = Pending
    /\ frames # <<>>
    /\ LET n == Len(frames)
           top == frames[n]
       IN  /\ top.phase = "fetch"
           /\ IF n >= RecursionLimit
              THEN \/ /\ frames' = [frames EXCEPT ![n].phase = "failed"]
                      /\ UNCHANGED <<requested, outcome>>
                   \/ /\ frames' = <<>>
                      /\ outcome' = Raised("RecursionError")
                      /\ UNCHANGED requested
              ELSE \E ok \in BOOLEAN :
                      /\ requested' = Append(requested, Request(top.directory, ok))
                      /\ frames' = [frames EXCEPT ![n] =
                            IF ok
                            THEN Walk_scanned(top, Walk_served(remote, top.directory))
                            ELSE [top EXCEPT !.phase = "failed"]]
                      /\ UNCHANGED outcome
    /\ UNCHANGED <<callVars, osfVars, cacheVars, lookup_url>>

\* Lines 184-185: the next subdirectory is entered
Walk_descend ==
    /\ outcome = Pending
    /\ frames # <<>>
    /\ LET n == Len(frames)
           top == frames[n]
       IN  /\ top.phase = "loop"
           /\ top.directories # <<>>
           /\ frames' = Append([frames EXCEPT ![n].directories = Tail(top.directories)],
                               Walk_frame(top.directory \o Head(top.directories)))
    /\ UNCHANGED <<requested, outcome, callVars, osfVars, cacheVars, lookup_url>>

\* Lines 137 and 189: the innermost call returns, to the call that entered
\* it (lines 186-187) or to the caller of extract_all_files
Walk_return ==
    /\ outcome = Pending
    /\ frames # <<>>
    /\ LET n == Len(frames)
           top == frames[n]
           sub_files == IF top.phase = "failed" THEN Str(WRONG_ACCESSION)
                        ELSE List(top.files_info)
       IN  /\ \/ top.phase = "failed"
              \/ top.phase = "loop" /\ top.directories = <<>>
           /\ IF n = 1
              THEN /\ frames' = <<>>
                   /\ outcome' = [kind |-> "returned", files |-> sub_files]
              ELSE /\ frames' = [SubSeq(frames, 1, n - 1) EXCEPT ![n - 1].files_info =
                                    Walk_extend(frames[n - 1].files_info, sub_files)]
                   /\ UNCHANGED outcome
    /\ UNCHANGED <<requested, callVars, osfVars, cacheVars, lookup_url>>

WalkInit ==
    /\ provider = "GWAS"
    /\ acc = WalkAccession
    /\ remote \in WalkRemotes
    /\ pc = "idle"
    /\ access = None
    /\ result = Pending
    /\ net = [issued |-> 0, failed |-> 0]
    /\ gwas = NoWalk
    /\ folder_ids = <<>>
    /\ files_info = <<>>
    /\ queue = <<>>
    /\ running = {}
    /\ futures = <<>>
    /\ merged = 0
    /\ completed = <<>>
    /\ NoCache
    /\ lookup_url = None
    /\ frames = <<Walk_frame(<<>>)>>
    /\ requested = <<>>
    /\ outcome = Pending

WalkNext ==
    \/ Walk_fetch
    \/ Walk_descend
    \/ Walk_return

\* The interpreter runs the call as long as it has a step to take.
WalkSpec == WalkInit /\ [][WalkNext]_vars /\ WF_vars(WalkNext)

(***************************************************************************)
(* gwas_api.py: get_html_response building the URL of the directory of an   *)
(* accession, the number of the accession written with or without leading   *)
(* zeros.                                                                   *)
(***************************************************************************)
GCST == <<"G", "C", "S", "T">>

LookupAccessions ==
    {GCST \o ZeroPad6(n) : n \in 1..MaxNumber}
    \cup {GCST \o DigitsOf(n) : n \in 1..MaxNumber}

LookupInit ==
    /\ provider = "GWAS"
    /\ acc \in LookupAccessions
    /\ remote = None
    /\ pc = "idle"
    /\ access = None
    /\ result = Pending
    /\ net = [issued |-> 0, failed |-> 0]
    /\ gwas = NoWalk
    /\ folder_ids = <<>>
    /\ files_info = <<>>
    /\ queue = <<>>
    /\ running = {}
    /\ futures = <<>>
    /\ merged = 0
    /\ completed = <<>>
    /\ NoCache
    /\ NoFrames
    /\ lookup_url = None

\* Line 112: the URL of the root directory of the accession
GWAS_build_url ==
    /\ lookup_url = None
    /\ lookup_url' = Str(GWAS_base_url(acc, <<>>))
    /\ UNCHANGED <<callVars, osfVars, cacheVars, walkVars>>

LookupNext == GWAS_build_url

LookupSpec == LookupInit /\ [][LookupNext]_vars

(***************************************************************************)
(* Properties of process_accession, all adapters.                          *)
(***************************************************************************)
CallReturned ==
    /\ pc = "done"
    /\ result.kind = "returned"

ListReturned ==
    /\ CallReturned
    /\ result.files.t = "list"

CanonicalAttributes == {"name", "size", "last_modified", "download_url"}

\* C1: process_accession never raises: whatever the accession and whatever
\* the remote side does, the call returns a value.
C1_NeverRaises ==
    result.kind # "raised"

\* C2: every value process_accession returns is a well-formed Resolution
\* Result: data.files is a sequence of file records, never a status string
\* or None.
C2_FilesIsASequence ==
    CallReturned => result.files.t = "list"

\* C3: when every remote request of the call fails, process_accession returns
\* files = [] and an access status other than "public".
C3_UnresolvableIsEmptyAndNotPublic ==
    (pc = "done" /\ net.failed = net.issued)
        => /\ result.kind = "returned"
           /\ result.files = List(<<>>)
           /\ result.access # PUBLIC

\* C3 witness: a completed call all of whose requests (at least one) failed.
C3_Witness ==
    /\ CallReturned
    /\ net.issued > 0
    /\ net.failed = net.issued

\* C4: for ArrayExpress, ENCODE, OSF and Zenodo, a returned access status
\* other than "public" comes with an empty file list and with no file-listing
\* work: the call issued no request beyond the one that decides the access.
C4_NonPublicSkipsListing ==
    (/\ provider \in {"ArrayExpress", "ENCODE", "OSF", "Zenodo"}
     /\ CallReturned
     /\ result.access # PUBLIC)
        => /\ result.files = List(<<>>)
           /\ net.issued <= 1

\* C5: every file record of every result has exactly the attributes name,
\* size, last_modified and download_url.
C5_FourCanonicalAttributes ==
    ListReturned
        => \A i \in DOMAIN result.files.v :
               DOMAIN result.files.v[i] = CanonicalAttributes

\* C6: in every file record of every result, name is a non-empty string.
C6_NameNeverEmpty ==
    ListReturned
        => \A i \in DOMAIN result.files.v : result.files.v[i].name # <<>>

(***************************************************************************)
(* Properties of the GWAS walk.  What the walk should return is computed   *)
(* from the pages the remote side serves, level by level: a visit is the   *)
(* sequence of row numbers that leads from the accession's directory to a  *)
(* directory, so a directory counts once for each row that links to it.    *)
(***************************************************************************)
\* A row that names an entry: four cells, a link, not the parent directory.
IsEntryRow(row) ==
    /\ row.cols >= 4
    /\ row.anchor
    /\ ~contains(strip(row.text), ParentDirectory)

IsDirectoryRow(row) ==
    /\ IsEntryRow(row)
    /\ endswith(strip(row.text), <<"/">>)

IsFileRow(row) ==
    /\ IsEntryRow(row)
    /\ ~endswith(strip(row.text), <<"/">>)

\* The path, below the accession's directory, of the directory a visit reaches
RECURSIVE VisitDirectory(_, _)
VisitDirectory(tree, visit) ==
    IF visit = <<>> THEN <<>>
    ELSE LET parent == VisitDirectory(tree, SubSeq(visit, 1, Len(visit) - 1))
         IN  parent \o strip(GWAS_served(tree, parent).v[visit[Len(visit)]].text)

VisitPage(tree, visit) ==
    GWAS_served(tree, VisitDirectory(tree, visit)).v

VisitAnswered(tree, failed, visit) ==
    /\ VisitDirectory(tree, visit) \notin failed
    /\ GWAS_served(tree, VisitDirectory(tree, visit)) # NotFound

VisitsBelow(tree, visits) ==
    UNION {{v \o <<i>> : i \in {j \in DOMAIN VisitPage(tree, v) :
                                    IsDirectoryRow(VisitPage(tree, v)[j])}} :
           v \in visits}

\* The visits whose page is fetched, when the requests of the directories in
\* failed fail: nothing below a directory that is not fetched is visited.
RECURSIVE AnsweredVisits(_, _, _)
AnsweredVisits(tree, failed, frontier) ==
    LET live == {v \in frontier : VisitAnswered(tree, failed, v)}
    IN  IF live = {} THEN {}
        ELSE live \cup AnsweredVisits(tree, failed, VisitsBelow(tree, live))

\* The file rows of the fetched pages, each as <<visit, row number>>
ExpectedFileRows(tree, failed) ==
    UNION {{<<v, i>> : i \in {j \in DOMAIN VisitPage(tree, v) :
                                  IsFileRow(VisitPage(tree, v)[j])}} :
           v \in AnsweredVisits(tree, failed, {<<>>})}

\* name and download_url of the record of a file row
ExpectedRecord(acc_no, tree, x) ==
    LET path == VisitDirectory(tree, x[1])
        file_name == strip(VisitPage(tree, x[1])[x[2]].text)
    IN  [name |-> path \o file_name,
         download_url |-> GWAS_base_url(acc_no, <<>>) \o path \o file_name]

NameAndUrl(r) ==
    [name |-> r.name, download_url |-> r.download_url]

\* records holds one record for each expected file row and nothing else
OneRecordPerFileRow(records, acc_no, tree, failed) ==
    LET expected == ExpectedFileRows(tree, failed)
    IN  /\ Len(records) = Cardinality(expected)
        /\ \A x \in expected :
               Cardinality({i \in DOMAIN records :
                               NameAndUrl(records[i]) = ExpectedRecord(acc_no, tree, x)})
               = Cardinality({y \in expected :
                                 ExpectedRecord(acc_no, tree, y)
                                 = ExpectedRecord(acc_no, tree, x)})

\* get_access has returned and gwas still describes its requests
GetAccessReturned ==
    /\ provider = "GWAS"
    /\ access # None
    /\ gwas.meta # "none"
    /\ gwas.walked => gwas.caller = "get_access"

\* C7: whenever GWAS get_access returns, it returns "public" exactly when the
\* study request succeeded and the recursive listing holds at least one file,
\* "no files in the given repo" when the study request succeeded and the root
\* listing was fetched but the listing holds no file, and "not accessible /
\* wrong accession number" when the study request or the root listing failed.
C7_GwasAccessClassification ==
    GetAccessReturned
        => LET resolves == gwas.meta = "ok" /\ <<>> \notin gwas.failed
               nonEmpty == resolves /\ ExpectedFileRows(remote, gwas.failed) # {}
           IN  /\ (access.v = PUBLIC) <=> nonEmpty
               /\ (resolves /\ ~nonEmpty) => access.v = NO_FILES
               /\ ~resolves => access.v = WRONG_ACCESSION

\* C7 witness: a study that resolves, with subdirectories fetched, and no file
C7_Witness ==
    /\ GetAccessReturned
    /\ access.v = NO_FILES
    /\ gwas.walked
    /\ Len(gwas.fetched) > 1

\* C8: when every directory request of a GWAS walk succeeds, the value
\* returned is a list holding exactly one record for each file row of each
\* reachable directory, with name = path + file name and download_url =
\* base/accession/path/file name; directory rows and "Parent Directory" rows
\* give no record.
C8_GwasFlattenedListing ==
    (/\ provider = "GWAS"
     /\ gwas.walked
     /\ gwas.ret.t # "raise"
     /\ gwas.failed = {})
        => /\ gwas.ret.t = "list"
           /\ OneRecordPerFileRow(gwas.ret.v, acc, remote, {})
           /\ \A i \in DOMAIN gwas.ret.v :
                  ~contains(gwas.ret.v[i].name, ParentDirectory)

\* C8 witness: root -> 2 subdirectories -> 1 file each gives the 2 records
\* d/b and e/b
C8_Witness ==
    /\ provider = "GWAS"
    /\ gwas.walked
    /\ gwas.failed = {}
    /\ Len(gwas.fetched) = 3
    /\ gwas.ret.t = "list"
    /\ Len(gwas.ret.v) = 2
    /\ gwas.ret.v[1].name = <<"d", "/", "b">>
    /\ gwas.ret.v[2].name = <<"e", "/", "b">>

\* C9: in a GWAS walk the error string is returned exactly when the request
\* of the root directory fails; otherwise the value is a list holding the
\* records of every directory that was fetched, so that a failed request of
\* a directory below the root removes the records of its subtree only; and
\* get_access reports "not accessible / wrong accession number" for the
\* listing exactly when the root request failed.
C9_GwasFailedSubtreeOnly ==
    (/\ provider = "GWAS"
     /\ gwas.walked
     /\ gwas.ret.t # "raise")
        => /\ (<<>> \in gwas.failed) <=> (gwas.ret = Str(WRONG_ACCESSION))
           /\ <<>> \notin gwas.failed
                  => /\ gwas.ret.t = "list"
                     /\ OneRecordPerFileRow(gwas.ret.v, acc, remote, gwas.failed)
           /\ GetAccessReturned
                  => ((access.v = WRONG_ACCESSION) <=> (<<>> \in gwas.failed))

\* C9 witness: the request of d/ failed and the record of the file of its
\* sibling e/ is returned
C9_Witness ==
    /\ provider = "GWAS"
    /\ gwas.walked
    /\ gwas.failed = {<<"d", "/">>}
    /\ gwas.ret.t = "list"
    /\ \E i \in DOMAIN gwas.ret.v : gwas.ret.v[i].name = <<"e", "/", "b">>

(***************************************************************************)
(* Properties of the OSF fan-out.                                          *)
(***************************************************************************)
\* The entries the remote side lists: the top-level files, then the entries
\* of each top-level folder
OSF_listed_files ==
    SelectSeq(Get(remote.root, "data").v, LAMBDA row : row.kind = "file")

OSF_listed_folders ==
    SelectSeq(Get(remote.root, "data").v, LAMBDA row : row.kind = "folder")

OSF_listed_in(i) ==
    Get(remote.folder[OSF_listed_folders[i].id], "data").v

RECURSIVE OSF_entries_of_folders(_)
OSF_entries_of_folders(n) ==
    IF n = 0 THEN 0 ELSE OSF_entries_of_folders(n - 1) + Len(OSF_listed_in(n))

OSF_listed_names ==
    {OSF_listed_files[i].materialized_path : i \in DOMAIN OSF_listed_files}
    \cup UNION {{OSF_listed_in(i)[j].materialized_path : j \in DOMAIN OSF_listed_in(i)} :
                i \in DOMAIN OSF_listed_folders}

OSF_times_listed(name) ==
    Cardinality({i \in DOMAIN OSF_listed_files :
                    OSF_listed_files[i].materialized_path = name})
    + Cardinality(UNION {{<<i, j>> : j \in {k \in DOMAIN OSF_listed_in(i) :
                                  OSF_listed_in(i)[k].materialized_path = name}} :
                         i \in DOMAIN OSF_listed_folders})

\* A call that went through the fan-out (at least one top-level folder) with
\* every request served
OSF_fan_out_returned ==
    /\ provider = "OSF"
    /\ CallReturned
    /\ folder_ids # <<>>
    /\ net.failed = 0

\* C10: whatever the order in which the workers start and finish, an OSF
\* call whose requests all succeed returns, for F top-level files and n >= 1
\* folders of k_1..k_n entries, exactly F + k_1 + ... + k_n records, each
\* listed entry being returned as often as it is listed.
C10_OsfSameRecordsEveryInterleaving ==
    OSF_fan_out_returned
        => /\ result.files.t = "list"
           /\ Len(result.files.v)
                  = Len(OSF_listed_files) + OSF_entries_of_folders(Len(OSF_listed_folders))
           /\ \A name \in OSF_listed_names :
                  Cardinality({i \in DOMAIN result.files.v :
                                  result.files.v[i].name = name})
                  = OSF_times_listed(name)

\* C10 witness: 3 top-level files and 2 folders of 2 entries give 7 records
C10_Witness ==
    /\ OSF_fan_out_returned
    /\ Len(OSF_listed_files) = 3
    /\ Len(OSF_listed_folders) = 2
    /\ \A i \in 1..2 : Len(OSF_listed_in(i)) = 2
    /\ Len(result.files.v) = 7

(***************************************************************************)
(* Properties of the response cache.                                       *)
(***************************************************************************)
\* C11: a call of a memoized fetch function with a key that is in the cache
\* returns the value the cache holds for it, None included, and sends no
\* request, whatever the remote side would answer now; and the value the
\* cache holds is the one the call that fetched it returned.
C11_CacheHitReturnsStoredValue ==
    [][(call' # call \/ cache' # cache)
          => /\ call'.key \in CacheKeys(cache)
                    => /\ call'.value = CachedValue(cache, call'.key)
                       /\ call'.requests = 0
             /\ (Memoized(fn) /\ call'.key \notin CacheKeys(cache))
                    => /\ call'.key \in CacheKeys(cache')
                       /\ CachedValue(cache', call'.key) = call'.value]_vars

\* C11 witness: a call answered from the cache with the None of a failed
\* fetch, without request, while the remote side is reachable
C11_Witness ==
    /\ call.key \in Keys
    /\ call.requests = 0
    /\ call.value = None
    /\ upstream

\* C12: the cache never holds more than CACHE_SIZE entries; an entry that
\* leaves the cache is the earliest-inserted one, whatever was looked up
\* since; a call with a key that is not in the cache sends a request.
C12_EvictsEarliestInserted ==
    [][/\ Len(cache') <= CACHE_SIZE
       /\ \A k \in CacheKeys(cache) \ CacheKeys(cache') : k = Head(inserted)
       /\ (call' # call /\ call'.key \notin CacheKeys(cache))
              => call'.requests = 1]_vars

\* C13: a fetch function called again with a key it fetched before, the entry
\* not evicted in between, sends no request.
C13_RepeatedFetchIssuesNoRequest ==
    call.repeated => call.requests = 0

(***************************************************************************)
(* Properties of single adapters.                                          *)
(***************************************************************************)
\* "GCST" followed by digits
MatchesGcst(acc_no) ==
    /\ startswith(acc_no, <<"G", "C", "S", "T">>)
    /\ AllDigits(SubSeq(acc_no, 5, Len(acc_no)))

MalformedAccession ==
    \/ provider = "ArrayExpress" /\ ~AE_ACCESSION_PATTERN(acc)
    \/ provider = "GWAS" /\ ~MatchesGcst(acc)

\* C14: an ArrayExpress or GWAS call on an accession that does not match the
\* provider's pattern sends no request and returns the error status.
C14_MalformedAccessionSendsNothing ==
    MalformedAccession
        => /\ net.issued = 0
           /\ pc = "done"
                  => /\ result.kind = "returned"
                     /\ result.access = WRONG_ACCESSION

\* C15: ENCODE get_access returns "public" for a resolved object whose status
\* is "released"; for any other status, "no data deposited" when the object
\* reports that no file is available and "not yet released" otherwise; and
\* the fixed error string when the request failed.
C15_EncodeClassification ==
    (provider = "ENCODE" /\ CallReturned)
        => /\ net.failed = 1 => result.access = WRONG_CODE
           /\ (net.failed = 0 /\ remote.body.t = "dict")
                  => LET released == Get(remote.body, "status") = Str(<<"released">>)
                         absent == Get(remote.body, "no_file_available") = Bool(TRUE)
                     IN  result.access = IF released THEN PUBLIC
                                         ELSE IF absent THEN NO_DATA
                                         ELSE NOT_RELEASED

\* The root listing of the OSF repository resolved, to top-level files only.
OSF_root_without_folders ==
    /\ provider = "OSF"
    /\ pc = "done"
    /\ net.issued >= 2
    /\ net.failed = 0
    /\ remote.root.t = "dict"
    /\ HasKey(remote.root, "data")
    /\ OSF_listed_folders = <<>>

\* C16: when the OSF root listing resolves to top-level files only, the call
\* sends no folder request and returns the records of those files, in the
\* order of the listing.
C16_OsfNoFolderReturnsRootFiles ==
    OSF_root_without_folders
        => /\ net.issued = 2
           /\ result.kind = "returned"
           /\ result.files.t = "list"
           /\ [i \in DOMAIN result.files.v |-> result.files.v[i].name]
                  = [i \in DOMAIN OSF_listed_files |->
                        OSF_listed_files[i].materialized_path]

(***************************************************************************)
(* Properties of the OSF fan-out.                                          *)
(***************************************************************************)
\* The request for the i-th top-level folder was served
OSF_fetch_succeeded(i) ==
    \E c \in DOMAIN completed : completed[c].task = i /\ completed[c].ok

OSF_fetch_failed(i) ==
    \E c \in DOMAIN completed : completed[c].task = i /\ ~completed[c].ok

\* The entries the remote side lists in the i-th top-level folder
OSF_entries_in(i) ==
    LET data == Get(remote.folder[folder_ids[i]], "data")
    IN  IF data.t = "list" THEN data.v ELSE <<>>

\* The entries the i-th folder contributes
OSF_contribution(i) ==
    IF OSF_fetch_succeeded(i) THEN OSF_entries_in(i) ELSE <<>>

OSF_result_names ==
    [i \in DOMAIN result.files.v |-> result.files.v[i].name]

OSF_times_in(names, name) ==
    Cardinality({i \in DOMAIN names : names[i] = name})

\* A call that went through the fan-out with the root listing served
OSF_fan_out_finished ==
    /\ provider = "OSF"
    /\ pc = "done"
    /\ folder_ids # <<>>

\* C17: a folder request that fails contributes no record and aborts
\* nothing: the call raises only when a served folder response has no
\* 'data', and a call that returns holds the top-level file records and the
\* records of exactly the folders whose request was served.
C17_OsfFailedFolderOnlyLosesItsOwn ==
    OSF_fan_out_finished
        => /\ result.kind = "raised"
                  => \E i \in DOMAIN folder_ids :
                         /\ OSF_fetch_succeeded(i)
                         /\ ~HasKey(remote.folder[folder_ids[i]], "data")
           /\ result.kind = "returned"
                  => /\ result.files.t = "list"
                     /\ SubSeq(OSF_result_names, 1, Len(OSF_listed_files))
                            = [i \in DOMAIN OSF_listed_files |->
                                  OSF_listed_files[i].materialized_path]
                     /\ \A i \in DOMAIN folder_ids :
                            \A j \in DOMAIN OSF_entries_in(i) :
                                OSF_times_in(OSF_result_names,
                                             OSF_entries_in(i)[j].materialized_path)
                                = IF OSF_fetch_succeeded(i) THEN 1 ELSE 0
                     /\ Len(OSF_result_names)
                            = Len(OSF_listed_files)
                              + Len(OSF_contribution(1))
                              + (IF Len(folder_ids) > 1
                                 THEN Len(OSF_contribution(2)) ELSE 0)
                              + (IF Len(folder_ids) > 2
                                 THEN Len(OSF_contribution(3)) ELSE 0)

\* C17 witness: the first folder's request failed, the second folder's two
\* records are in the result after the three top-level ones
C17_Witness ==
    /\ OSF_fan_out_finished
    /\ result.kind = "returned"
    /\ Len(folder_ids) = 2
    /\ Len(OSF_listed_files) = 3
    /\ OSF_fetch_failed(1)
    /\ Len(OSF_entries_in(1)) = 2
    /\ OSF_fetch_succeeded(2)
    /\ Len(OSF_entries_in(2)) = 2
    /\ Len(result.files.v) = 5

OSF_contributed_names(i) ==
    [j \in DOMAIN OSF_contribution(i) |-> OSF_contribution(i)[j].materialized_path]

OSF_root_names ==
    [i \in DOMAIN OSF_listed_files |-> OSF_listed_files[i].materialized_path]

\* The order in which the folder requests were answered
OSF_completion_order ==
    [c \in DOMAIN completed |-> completed[c].task]

OSF_fan_out_done ==
    /\ OSF_fan_out_finished
    /\ result.kind = "returned"
    /\ result.files.t = "list"

\* C19 as stated: the records of the folders follow the top-level records in
\* the order in which the folder requests completed.
C19_FolderRecordsInCompletionOrder ==
    OSF_fan_out_done
        => OSF_result_names
               = OSF_root_names
                 \o Flatten([c \in DOMAIN completed |->
                                OSF_contributed_names(OSF_completion_order[c])])

\* C19: the top-level records keep the order of the root listing and the
\* records of the folders follow them in the order in which the root
\* listing names the folders (the order of submission), whatever the order
\* in which the folder requests completed.
C19_FolderRecordsInSubmissionOrder ==
    OSF_fan_out_done
        => OSF_result_names
               = OSF_root_names
                 \o Flatten([i \in DOMAIN folder_ids |-> OSF_contributed_names(i)])

\* C19 witness: the second folder was answered before the first, both hold
\* entries, and the call returned
C19_Witness ==
    /\ OSF_fan_out_done
    /\ OSF_completion_order = <<2, 1>>
    /\ OSF_contributed_names(1) # <<>>
    /\ OSF_contributed_names(2) # <<>>

OSF_requests_for(i) ==
    Cardinality({c \in DOMAIN completed : completed[c].task = i})

\* A step of the calling thread: the scan of the root listing or one round
\* of the merge loop
OSF_calling_thread_step ==
    \/ pc = "osf_root"
    \/ /\ merged' = merged + 1
       /\ running' = running
       /\ futures' = futures

\* C18: at any moment at most min(number of top-level folders, MAX_WORKERS)
\* folder requests are in flight; no folder is requested twice and, when the
\* call is over, every folder was requested once; and files_info changes
\* only in steps of the calling thread, a worker only filling in its own
\* result.
C18_OsfBoundedFanOut ==
    /\ [](/\ Cardinality(running) <= Min(Len(folder_ids), MAX_WORKERS)
          /\ \A i \in DOMAIN folder_ids : OSF_requests_for(i) <= 1
          /\ (pc = "done" /\ folder_ids # <<>>)
                 => /\ \A i \in DOMAIN folder_ids : OSF_requests_for(i) = 1
                    /\ net.issued = 2 + Len(folder_ids))
    /\ [][/\ files_info' # files_info => OSF_calling_thread_step
          /\ running' # running => files_info' = files_info]_vars

\* C18 witness: MAX_WORKERS requests are in flight and a folder still waits
C18_Witness ==
    /\ pc = "osf_pool"
    /\ Cardinality(running) = MAX_WORKERS
    /\ queue # <<>>
    /\ Len(folder_ids) > MAX_WORKERS

(***************************************************************************)
(* Properties of the GWAS walk.                                            *)
(***************************************************************************)
Walk_links(tree, name) ==
    Range(GWAS_directories(tree.sub[name]))

\* The names below a name, two names at most lying on a path without repeat
Walk_below(tree, name) ==
    Walk_links(tree, name)
    \cup UNION {Walk_links(tree, m) : m \in Walk_links(tree, name)}

Walk_reachable(tree) ==
    LET top == Range(GWAS_directories(tree.root))
    IN  top \cup UNION {Walk_below(tree, name) : name \in top}

\* A directory is reachable from itself
Walk_cyclic(tree) ==
    \E name \in Walk_reachable(tree) : name \in Walk_below(tree, name)

Walk_all_served ==
    \A i \in DOMAIN requested : requested[i].ok

Walk_requested_directories ==
    [i \in DOMAIN requested |-> requested[i].to]

\* The directories from directory on, depth first in the order of the rows,
\* and the names of the files in that order, a directory's own files first;
\* depth bounds the descent
RECURSIVE Walk_preorder(_, _, _)
Walk_preorder(tree, directory, depth) ==
    LET directories == GWAS_directories(Walk_served(tree, directory))
    IN  <<directory>>
        \o (IF depth = 0 THEN <<>>
            ELSE Flatten([i \in DOMAIN directories |->
                             Walk_preorder(tree, directory \o directories[i],
                                           depth - 1)]))

Walk_own_files(tree, directory) ==
    LET rows == SelectSeq(Walk_served(tree, directory),
                          LAMBDA row : /\ GWAS_row_counts(row)
                                       /\ ~endswith(strip(row.text), <<"/">>))
    IN  [i \in DOMAIN rows |-> directory \o strip(rows[i].text)]

RECURSIVE Walk_files_depth_first(_, _, _)
Walk_files_depth_first(tree, directory, depth) ==
    LET directories == GWAS_directories(Walk_served(tree, directory))
    IN  Walk_own_files(tree, directory)
        \o (IF depth = 0 THEN <<>>
            ELSE Flatten([i \in DOMAIN directories |->
                             Walk_files_depth_first(tree, directory \o directories[i],
                                                    depth - 1)]))

Walk_returned_names ==
    [i \in DOMAIN outcome.files.v |-> outcome.files.v[i].name]

\* An acyclic tree of the two names has two levels below the root at most.
Walk_acyclic_done ==
    /\ outcome # Pending
    /\ ~Walk_cyclic(remote)
    /\ Walk_all_served

Walk_depth_first_once ==
    /\ outcome.kind = "returned"
    /\ outcome.files.t = "list"
    /\ Walk_requested_directories
           = Walk_preorder(remote, <<>>, Cardinality(DirNames))
    /\ Walk_returned_names
           = Walk_files_depth_first(remote, <<>>, Cardinality(DirNames))

Walk_never_twice ==
    \A i, j \in DOMAIN requested : requested[i].to = requested[j].to => i = j

\* C20 as stated: on an acyclic tree a call that ends has requested each
\* reachable directory once, depth first in the order of the rows, with the
\* files of a directory before those of its subdirectories; on a listing in
\* which a directory is reachable from itself the call never ends.
C20_CyclicWalkNeverEnds ==
    /\ Walk_never_twice
    /\ Walk_acyclic_done => Walk_depth_first_once
    /\ (Walk_cyclic(remote) /\ Walk_all_served) => outcome = Pending

\* C20: every call ends and requests no directory twice; on an acyclic tree
\* it has requested each reachable directory, depth first in the order of
\* the rows, and returns the files of a directory before those of its
\* subdirectories; on a listing in which a directory is reachable from
\* itself it descends as far as the interpreter's recursion limit allows
\* and then returns a list or raises RecursionError.
C20_WalkEndsDepthFirst ==
    /\ <>(outcome # Pending)
    /\ [](/\ Walk_never_twice
          /\ Walk_acyclic_done => Walk_depth_first_once
          /\ (Walk_cyclic(remote) /\ Walk_all_served /\ outcome # Pending)
                 => /\ \/ outcome = Raised("RecursionError")
                       \/ outcome.kind = "returned" /\ outcome.files.t = "list"
                    /\ \E i \in DOMAIN requested :
                           Len(requested[i].to) = 2 * (RecursionLimit - 2))

\* C20 witness: a call on an acyclic tree with a directory in a directory
\* returned after four requests
C20_Witness ==
    /\ Walk_acyclic_done
    /\ outcome.kind = "returned"
    /\ Len(requested) = 4
    /\ \E i \in DOMAIN requested : Len(requested[i].to) = 4

(***************************************************************************)
(* Properties of the GWAS range directory.                                 *)
(***************************************************************************)
\* The URL is FTP_BASE_URL "/" range accession "/": the range directory is
\* what stands between the base and the accession
LookupRange ==
    SubSeq(lookup_url.v, 3, Len(lookup_url.v) - Len(acc) - 1)

\* The position of the "-" of the range directory
LookupDash ==
    CHOOSE i \in DOMAIN LookupRange : LookupRange[i] = "-"

\* The numbers of 'GCST<start>-GCST<end>/'
LookupStart ==
    ToInt(SubSeq(LookupRange, Len(GCST) + 1, LookupDash - 1))

LookupEnd ==
    ToInt(SubSeq(LookupRange, LookupDash + Len(GCST) + 1, Len(LookupRange) - 1))

LookupNumber ==
    ToInt(SubSeq(acc, Len(GCST) + 1, Len(acc)))

\* C21: the range directory of the URL built for 'GCST' n, n >= 1, is
\* 'GCST<start>-GCST<end>/' with start <= n <= end and end - start = 999.
C21_RangeHoldsAccession ==
    lookup_url # None
        => /\ SubSeq(LookupRange, 1, Len(GCST)) = GCST
           /\ SubSeq(LookupRange, LookupDash + 1, LookupDash + Len(GCST)) = GCST
           /\ LookupRange[Len(LookupRange)] = "/"
           /\ LookupEnd - LookupStart = 999
           /\ LookupStart <= LookupNumber
           /\ LookupNumber <= LookupEnd

=============================================================================
